---- MODULE Spec2Model ----
(***************************************************************************)
(* OneType: the session membership and write-token protocol of the        *)
(* networked (Live Share) variant, src/src/extension.ts lines 442-839.    *)
(*                                                                         *)
(* One Live Share host (HostPeer) and NumGuests guests each run a copy of  *)
(* the extension.  Every peer owns its replica of the session state        *)
(* (inSession, host, editor, users, idToUsername, myUsername, myNotifier). *)
(* The transport is a pair of FIFO channels per guest: guest -> host       *)
(* (proxy.notify) and host -> guest (service.notify reaches every guest).  *)
(*                                                                         *)
(* A handler is atomic up to the places where the code awaits the          *)
(* transport's notify or a user prompt.  There the rest of the handler is  *)
(* a continuation (pending) or an open prompt (prompts) of the peer, and   *)
(* any other callback of the peer may run first.  The awaits of getApi,    *)
(* shareService and getSharedService are local look-ups and are taken      *)
(* together with the code that follows them.                               *)
(***************************************************************************)
EXTENDS Integers, Sequences, FiniteSets, TLC

VARIABLES
    st,            \* st[p]: the module-level variables of peer p (lines 447-456)
    registered,    \* registered[p]: the kinds of handlers p has installed so far
    serviceShared, \* the host has called liveshare.shareService(SERVICE_NAME)
    prompts,       \* prompts[p]: the prompts open at p (input box, quick pick, modal)
    pending,       \* pending[p]: continuations of p waiting behind an awaited notify
    toHost,        \* toHost[g]: notifications in flight from guest g to the host
    toGuest,       \* toGuest[g]: notifications in flight from the host to guest g
    ncmd,          \* the number of commands and edits the users have made so far
    refused,       \* refused[g]: the username of g's join request that the host ignored
    last,          \* the operation that ran last, its peer and its outcome
    clock,         \* the value Date.now() returns
    warnings,      \* warnings[p]: the times at which p scheduled a violation warning
    lockFile,      \* the content of the .editlock file of the file-lock variant
    fileEvents     \* fileEvents[p]: a change of .editlock is yet to be reported at p

vars == <<st, registered, serviceShared, prompts, pending, toHost, toGuest, ncmd, refused, last,
          clock, warnings, lockFile, fileEvents>>

\* The clock and the lock file: no command or handler of the session protocol
\* writes them.
env == <<clock, lockFile, fileEvents>>

----------------------------------------------------------------------------
(* Bounds of the model *)

NumGuests == 2
MaxQueue == 2
MaxPending == 1
MaxPrompts == 1
MaxCommands == 5
MaxUsers == 3
MaxEvents == 2
MaxIntervals == 1
MaxEdits == 3

----------------------------------------------------------------------------
(* Peers, usernames and topics *)

HostPeer == 0
Guests == 1..NumGuests
Peers == {HostPeer} \cup Guests

Usernames == {"alice", "bob", "carol"}
HostNames == {"alice"}
Null == "null"
Undefined == "undefined"

\* liveshare is null: liveshare?.session.peerNumber is undefined.
NoPeer == -1

SERVICE_NAME == "onetype"
SEND_ALL_PREF == "sendToAll-"
ERROR_INTERVAL_MS == 50

\* Date.now() when the extension is activated: any value larger than the
\* interval, so that now - 0 > ERROR_INTERVAL_MS as it is for a real clock.
Epoch == 2000

\* The .editlock file: it does not exist, its text is not JSON, or it holds a
\* lock record {owner, users, requests}.
NoFile == [kind |-> "missing"]
Unparseable == [kind |-> "unparseable"]
LockRecord(owner, us, requests) ==
    [kind |-> "lock", owner |-> owner, users |-> us, requests |-> requests]

MassTopics == {"transferAccess", "detectChange", "endSession", "leave", "requestAccess"}

NoData == [none |-> TRUE]

Msg(topic, data) == [topic |-> topic, data |-> data]

Includes(seq, x) == \E i \in 1..Len(seq) : seq[i] = x

Filter(seq, x) == SelectSeq(seq, LAMBDA y : y # x)

Range(seq) == {seq[i] : i \in 1..Len(seq)}

----------------------------------------------------------------------------
(* The replica of one peer and the handlers that change it *)

IdleState ==
    [inSession |-> FALSE, host |-> Null, editor |-> Null, users |-> <<>>,
     idToUsername |-> {}, myUsername |-> Null, myNotifier |-> FALSE,
     liveshare |-> NoPeer, lastEditErrorTime |-> 0]

isHost(s) == s.myUsername = s.host

leave(s) ==
    [s EXCEPT !.inSession = FALSE, !.host = Null, !.editor = Null,
              !.users = <<>>, !.idToUsername = {}, !.myUsername = Null,
              !.myNotifier = FALSE, !.liveshare = NoPeer, !.lastEditErrorTime = 0]

\* liveshare holds the peer number of its session, or NoPeer when it is null.
getMyId(s) == s.liveshare

onTransferAccess(s, data) == [s EXCEPT !.editor = data.to]

\* The test of line 572 without the comparison of peer numbers.
IsViolation_anyNonEditor(s, data) == s.myUsername # s.editor

\* The test of line 572: the change is blamed on me and I am not the editor.
IsViolation(s, data) == data.perpetratorID = getMyId(s) /\ s.myUsername # s.editor

\* The test of line 576 with the interval check left out.
RateLimitPassed_always(s, now) == TRUE

RateLimitPassed(s, now) == now - s.lastEditErrorTime > ERROR_INTERVAL_MS

\* The detectChange handler schedules the warning.
Warns(s, data, now) == IsViolation(s, data) /\ RateLimitPassed(s, now)

onDetectChange(s, data, now) ==
    IF Warns(s, data, now) THEN [s EXCEPT !.lastEditErrorTime = now] ELSE s

\* An endSession handler that keeps the session state.
onEndSession_ignored(s, data) == s

onEndSession(s, data) == leave(s)

onLeave(s, data) ==
    [s EXCEPT !.editor = IF data.username = s.editor THEN s.host ELSE s.editor,
              !.users = Filter(s.users, data.username),
              !.idToUsername = {e \in s.idToUsername : e[1] # data.id}]

onInitiateJoin(s, data) ==
    [s EXCEPT !.host = data.host, !.editor = data.editor,
              !.idToUsername = data.idToUsername, !.users = data.users,
              !.inSession = TRUE]

\* The join handler without the test of line 688.
onJoin_alwaysPush(s, data) == [s EXCEPT !.users = Append(s.users, data.username)]

onJoin(s, data) ==
    IF ~Includes(s.users, data.username)
    THEN [s EXCEPT !.users = Append(s.users, data.username)]
    ELSE s

\* An initiateJoin payload that carries the new roster only.
Snapshot_rosterOnly(s) ==
    [host |-> s.host, editor |-> s.host, users |-> s.users,
     idToUsername |-> s.idToUsername]

Snapshot(s) ==
    [host |-> s.host, editor |-> s.editor, users |-> s.users,
     idToUsername |-> s.idToUsername]

\* Handlers in which a Request Access event hands the token over at once.
ApplyEvent_requestGrants(s, topic, data) ==
    CASE topic = "transferAccess" -> onTransferAccess(s, data)
      [] topic = "detectChange" -> onDetectChange(s, data, clock)
      [] topic = "endSession" -> onEndSession(s, data)
      [] topic = "leave" -> onLeave(s, data)
      [] topic = "requestAccess" -> [s EXCEPT !.editor = data.to]
      [] OTHER -> s

\* The replica after the handler that watchMassNotif registered for `topic`.
ApplyEvent(s, topic, data) ==
    CASE topic = "transferAccess" -> onTransferAccess(s, data)
      [] topic = "detectChange" -> onDetectChange(s, data, clock)
      [] topic = "endSession" -> onEndSession(s, data)
      [] topic = "leave" -> onLeave(s, data)
      [] OTHER -> s

\* The prompt the requestAccess handler opens: only at a peer that is the
\* editor in its own view.
PromptsAfter(p, s, topic, data) ==
    IF topic = "requestAccess" /\ s.myUsername = s.editor
    THEN prompts[p] \cup {[kind |-> "accept", targets |-> <<>>, data |-> data]}
    ELSE prompts[p]

PromptRoom(p, s, topic) ==
    (topic = "requestAccess" /\ s.myUsername = s.editor)
        => Cardinality(prompts[p]) < MaxPrompts

\* The warnings of peer p after the handler of `topic`: the detectChange handler
\* schedules one (setTimeout, line 578) at the current time.
WarningsAfter(p, s, topic, data) ==
    IF topic = "detectChange" /\ Warns(s, data, clock)
    THEN Append(warnings[p], clock)
    ELSE warnings[p]

\* The kinds of handlers initMassNotifs installs: watchMassNotif asks isHost()
\* when it registers, and myNotifier!.onNotify on a null notifier throws before
\* anything is installed.
WatchKinds(s) ==
    IF ~s.myNotifier THEN {}
    ELSE IF isHost(s) THEN {"relay", "local"} ELSE {"mass"}

----------------------------------------------------------------------------
(* The relay *)

Listening(g) ==
    \/ registered[g] # {}
    \/ \E i \in 1..Len(pending[g]) : pending[g][i].then = "register"

\* service.notify of the host: every guest that holds a proxy gets the message.
Broadcast(m) ==
    [g \in Guests |-> IF Listening(g) THEN Append(toGuest[g], m) ELSE toGuest[g]]

Cont(k, topic, data, then) ==
    [k |-> k, topic |-> topic, data |-> data, then |-> then]

Room(p) ==
    /\ Len(pending[p]) < MaxPending
    /\ \A g \in Guests : Len(toGuest[g]) < MaxQueue
    /\ p \in Guests => Len(toHost[p]) < MaxQueue

\* sendMassNotif up to its awaited notify.  `then` is what the caller does when
\* the call returns: "leave" (leaveSession) or "none".
sendMassNotif(p, name, data, then) ==
    LET s == st[p] IN
    IF ~s.myNotifier
    THEN \* myNotifier!.notify on null: the call throws, the caller stops
         [threw |-> TRUE, toHost |-> toHost, toGuest |-> toGuest, pending |-> pending]
    ELSE IF isHost(s)
    THEN [threw |-> FALSE,
          toHost |-> toHost,
          \* a guest's proxy sends `name` to the host, which has no handler for it
          toGuest |-> IF p = HostPeer THEN Broadcast(Msg(name, data)) ELSE toGuest,
          pending |-> [pending EXCEPT ![p] = Append(@, Cont("selfNotify", name, data, then))]]
    ELSE [threw |-> FALSE,
          toHost |-> IF p \in Guests
                     THEN [toHost EXCEPT ![p] = Append(@, Msg(SEND_ALL_PREF \o name, data))]
                     ELSE toHost,
          toGuest |-> toGuest,
          pending |-> IF then = "none" THEN pending
                      ELSE [pending EXCEPT ![p] = Append(@, Cont("sent", name, data, then))]]

Send(p, name, data, then, op) ==
    LET r == sendMassNotif(p, name, data, then) IN
    /\ toHost' = r.toHost
    /\ toGuest' = r.toGuest
    /\ pending' = r.pending
    /\ last' = [op |-> op, peer |-> p, out |-> IF r.threw THEN "TypeError" ELSE "sent"]

Note(op, p, out) == last' = [op |-> op, peer |-> p, out |-> out]

\* Deliveries and continuations are not recorded as operations.
Quiet == last' = [op |-> "deliver", peer |-> HostPeer, out |-> "ok"]

----------------------------------------------------------------------------
(* Initial state: every extension instance freshly activated *)

Init ==
    /\ st = [p \in Peers |-> IdleState]
    /\ registered = [p \in Peers |-> {}]
    /\ serviceShared = FALSE
    /\ prompts = [p \in Peers |-> {}]
    /\ pending = [p \in Peers |-> <<>>]
    /\ toHost = [g \in Guests |-> <<>>]
    /\ toGuest = [g \in Guests |-> <<>>]
    /\ ncmd = 0
    /\ refused = [g \in Guests |-> Null]
    /\ last = [op |-> "activate", peer |-> HostPeer, out |-> "ok"]
    /\ clock = Epoch
    /\ warnings = [p \in Peers |-> <<>>]
    /\ lockFile = NoFile
    /\ fileEvents = [p \in Peers |-> FALSE]

----------------------------------------------------------------------------
(* Prompts *)

Prompt(kind, targets, data) == [kind |-> kind, targets |-> targets, data |-> data]

OpenPrompt(p, pr) ==
    /\ Cardinality(prompts[p]) < MaxPrompts
    /\ prompts' = [prompts EXCEPT ![p] = @ \cup {pr}]

ClosePrompt(p, pr) == prompts' = [prompts EXCEPT ![p] = @ \ {pr}]

Command == /\ ncmd < MaxCommands
           /\ ncmd' = ncmd + 1

\* A prompt is dismissed: the input box or quick pick returns undefined, the
\* modal returns something other than 'Accept'.  The command or handler returns.
promptCancel(p) ==
    /\ UNCHANGED <<refused, env, warnings>>
    /\ \E pr \in prompts[p] :
        /\ ClosePrompt(p, pr)
        /\ Note(pr.kind, p, "cancelled")
        /\ UNCHANGED <<st, registered, serviceShared, pending, toHost, toGuest, ncmd>>

----------------------------------------------------------------------------
(* onetype.hostSession *)

\* Host Session that starts with an empty roster.
hostSessionInit_emptyRoster(s, username) ==
    [s EXCEPT !.myUsername = username, !.inSession = TRUE, !.host = username,
              !.editor = username, !.users = <<>>]

hostSessionInit(s, username) ==
    [s EXCEPT !.myUsername = username, !.inSession = TRUE, !.host = username,
              !.editor = username, !.users = <<username>>]

hostSession(p) ==
    /\ UNCHANGED <<refused, env, warnings>>
    /\ Command
    /\ IF st[p].inSession
       THEN /\ Note("hostSession", p, "AlreadyInSession")
            /\ UNCHANGED <<st, registered, serviceShared, prompts, pending, toHost, toGuest>>
       ELSE IF p # HostPeer
       THEN /\ st' = [st EXCEPT ![p].liveshare = p]
            /\ Note("hostSession", p, "NotHostRole")
            /\ UNCHANGED <<registered, serviceShared, prompts, pending, toHost, toGuest>>
       ELSE /\ serviceShared' = TRUE
            /\ st' = [st EXCEPT ![p].liveshare = p, ![p].myNotifier = TRUE]
            /\ OpenPrompt(p, Prompt("hostName", <<>>, NoData))
            /\ Note("hostSession", p, "prompt")
            /\ UNCHANGED <<registered, pending, toHost, toGuest>>

hostSessionName(p, username) ==
    LET pr == Prompt("hostName", <<>>, NoData)
        s == hostSessionInit(st[p], username) IN
    /\ pr \in prompts[p]
    /\ ClosePrompt(p, pr)
    /\ st' = [st EXCEPT ![p] = s]
    /\ registered' = [registered EXCEPT ![p] = @ \cup {"join", "peers"} \cup WatchKinds(s)]
    /\ Note("hostSession", p, "hosting")
    /\ UNCHANGED <<refused, env, warnings>>
    /\ UNCHANGED <<serviceShared, pending, toHost, toGuest, ncmd>>

----------------------------------------------------------------------------
(* onetype.joinSession *)

joinSession(p) ==
    /\ UNCHANGED <<refused, env, warnings>>
    /\ Command
    /\ IF st[p].inSession
       THEN /\ Note("joinSession", p, "AlreadyInSession")
            /\ UNCHANGED <<st, registered, serviceShared, prompts, pending, toHost, toGuest>>
       ELSE IF p = HostPeer
       THEN /\ st' = [st EXCEPT ![p].liveshare = p]
            /\ Note("joinSession", p, "NotGuestRole")
            /\ UNCHANGED <<registered, serviceShared, prompts, pending, toHost, toGuest>>
       ELSE /\ st' = [st EXCEPT ![p].liveshare = p]
            /\ OpenPrompt(p, Prompt("joinName", <<>>, NoData))
            /\ Note("joinSession", p, "prompt")
            /\ UNCHANGED <<registered, serviceShared, pending, toHost, toGuest>>

joinSessionName(p, username) ==
    LET pr == Prompt("joinName", <<>>, NoData)
        data == [username |-> username, peerNumber |-> p] IN
    /\ pr \in prompts[p]
    /\ ClosePrompt(p, pr)
    /\ IF ~serviceShared
       THEN /\ st' = [st EXCEPT ![p].myUsername = username]
            /\ Note("joinSession", p, "NoService")
            /\ UNCHANGED <<pending, toHost>>
       ELSE /\ Len(pending[p]) < MaxPending
            /\ Len(toHost[p]) < MaxQueue
            /\ st' = [st EXCEPT ![p].myUsername = username, ![p].myNotifier = TRUE]
            /\ toHost' = [toHost EXCEPT ![p] = Append(@, Msg("join", data))]
            /\ pending' = [pending EXCEPT ![p] = Append(@, Cont("sent", "join", data, "register"))]
            /\ Note("joinSession", p, "sent")
    /\ refused' = [refused EXCEPT ![p] = Null]
    /\ UNCHANGED <<registered, serviceShared, toGuest, ncmd, env, warnings>>

----------------------------------------------------------------------------
(* Continuations behind an awaited notify *)

AfterCont(p, c) ==
    LET s1 == IF c.k = "relayed" \/ (c.k = "selfNotify" /\ "local" \in registered[p])
              THEN ApplyEvent(st[p], c.topic, c.data)
              ELSE st[p]
    IN IF c.then = "leave" THEN leave(s1) ELSE s1

ContHandles(p, c) == c.k = "relayed" \/ (c.k = "selfNotify" /\ "local" \in registered[p])

resume(p) ==
    /\ UNCHANGED <<refused, env>>
    /\ pending[p] # <<>>
    /\ LET c == Head(pending[p]) IN
        /\ pending' = [pending EXCEPT ![p] = Tail(@)]
        /\ st' = [st EXCEPT ![p] = AfterCont(p, c)]
        /\ registered' = IF c.then = "register"
                         THEN [registered EXCEPT ![p] = @ \cup {"initiateJoin"} \cup WatchKinds(st[p])]
                         ELSE registered
        /\ IF ContHandles(p, c)
           THEN /\ PromptRoom(p, st[p], c.topic)
                /\ prompts' = [prompts EXCEPT ![p] = PromptsAfter(p, st[p], c.topic, c.data)]
                /\ warnings' = [warnings EXCEPT ![p] = WarningsAfter(p, st[p], c.topic, c.data)]
           ELSE UNCHANGED <<prompts, warnings>>
        /\ Quiet
    /\ UNCHANGED <<serviceShared, toHost, toGuest, ncmd>>

----------------------------------------------------------------------------
(* Commands that broadcast *)

SendCommand(p, name, data, then, op) ==
    /\ sendMassNotif(p, name, data, then).threw \/ Room(p)
    /\ Send(p, name, data, then, op)

endSession(p) ==
    /\ UNCHANGED <<refused, env, warnings>>
    /\ Command
    /\ SendCommand(p, "endSession", NoData, "none", "endSession")
    /\ UNCHANGED <<st, registered, serviceShared, prompts>>

leaveSession(p) ==
    /\ UNCHANGED <<refused, env, warnings>>
    /\ Command
    /\ SendCommand(p, "leave", [username |-> st[p].myUsername, id |-> p], "leave", "leaveSession")
    /\ UNCHANGED <<st, registered, serviceShared, prompts>>

\* The guard of line 790 with the editor comparison left out.
NotCurrentEditor_sessionOnly(s) == ~s.inSession

NotCurrentEditor(s) == ~s.inSession \/ s.myUsername # s.editor

giveAccess(p) ==
    /\ UNCHANGED <<refused, env, warnings>>
    /\ Command
    /\ IF NotCurrentEditor(st[p])
       THEN /\ Note("giveAccess", p, "NotEditor")
            /\ UNCHANGED prompts
       ELSE /\ OpenPrompt(p, Prompt("pick", Filter(st[p].users, st[p].myUsername), NoData))
            /\ Note("giveAccess", p, "prompt")
    /\ UNCHANGED <<st, registered, serviceShared, pending, toHost, toGuest>>

giveAccessPick(p) ==
    /\ UNCHANGED <<refused, env, warnings>>
    /\ \E pr \in prompts[p] :
        /\ pr.kind = "pick"
        /\ \E target \in Range(pr.targets) :
              SendCommand(p, "transferAccess",
                          [from |-> st[p].myUsername, to |-> target], "none", "giveAccess")
        /\ ClosePrompt(p, pr)
        /\ UNCHANGED <<st, registered, serviceShared, ncmd>>

\* Force Take without the tests of lines 808 and 813.
forceAccess_unguarded(p) ==
    /\ UNCHANGED <<refused, env, warnings>>
    /\ Command
    /\ SendCommand(p, "transferAccess",
                   [from |-> st[p].editor, to |-> st[p].myUsername], "none", "forceAccess")
    /\ UNCHANGED <<st, registered, serviceShared, prompts>>

forceAccess(p) ==
    /\ UNCHANGED <<refused, env, warnings>>
    /\ Command
    /\ IF ~st[p].inSession
       THEN /\ Note("forceAccess", p, "NotInSession")
            /\ UNCHANGED <<pending, toHost, toGuest>>
       ELSE IF st[p].myUsername = st[p].editor
       THEN /\ Note("forceAccess", p, "AlreadyEditor")
            /\ UNCHANGED <<pending, toHost, toGuest>>
       ELSE SendCommand(p, "transferAccess",
                        [from |-> st[p].editor, to |-> st[p].myUsername], "none", "forceAccess")
    /\ UNCHANGED <<st, registered, serviceShared, prompts>>

requestAccess(p) ==
    /\ UNCHANGED <<refused, env, warnings>>
    /\ Command
    /\ IF ~st[p].inSession
       THEN /\ Note("requestAccess", p, "NotInSession")
            /\ UNCHANGED <<pending, toHost, toGuest>>
       ELSE IF st[p].myUsername = st[p].editor
       THEN /\ Note("requestAccess", p, "AlreadyEditor")
            /\ UNCHANGED <<pending, toHost, toGuest>>
       ELSE SendCommand(p, "requestAccess",
                        [from |-> st[p].editor, to |-> st[p].myUsername], "none", "requestAccess")
    /\ UNCHANGED <<st, registered, serviceShared, prompts>>

\* The editor answers 'Accept' to the modal of the requestAccess handler.
requestAccept(p) ==
    /\ UNCHANGED <<refused, env, warnings>>
    /\ \E pr \in prompts[p] :
        /\ pr.kind = "accept"
        /\ SendCommand(p, "transferAccess",
                       [from |-> pr.data.from, to |-> pr.data.to], "none", "accept")
        /\ ClosePrompt(p, pr)
        /\ UNCHANGED <<st, registered, serviceShared, ncmd>>

----------------------------------------------------------------------------
(* Delivery *)

RelayedTopic(m) == CHOOSE n \in MassTopics : m.topic = SEND_ALL_PREF \o n

IsRelayRequest(m) == \E n \in MassTopics : m.topic = SEND_ALL_PREF \o n

\* The host's service receives the head of guest g's channel.
hostReceive(g) ==
    /\ toHost[g] # <<>>
    /\ LET m == Head(toHost[g])
           h == st[HostPeer] IN
        /\ toHost' = [toHost EXCEPT ![g] = Tail(@)]
        /\ IF m.topic = "join" /\ "join" \in registered[HostPeer]
           THEN /\ st' = [st EXCEPT ![HostPeer] = onJoin(h, m.data)]
                /\ IF ~Includes(h.users, m.data.username)
                   THEN /\ \A x \in Guests : Len(toGuest[x]) < MaxQueue
                        /\ toGuest' = Broadcast(Msg("initiateJoin", Snapshot(onJoin(h, m.data))))
                        /\ refused' = [refused EXCEPT ![g] = Null]
                        /\ Quiet
                   ELSE /\ UNCHANGED toGuest
                        /\ refused' = [refused EXCEPT ![g] = m.data.username]
                        /\ Quiet
                /\ UNCHANGED pending
           ELSE IF IsRelayRequest(m) /\ "relay" \in registered[HostPeer]
           THEN IF h.myNotifier
                THEN /\ Room(HostPeer)
                     /\ toGuest' = Broadcast(Msg(RelayedTopic(m), m.data))
                     /\ pending' = [pending EXCEPT ![HostPeer] =
                                      Append(@, Cont("relayed", RelayedTopic(m), m.data, "none"))]
                     /\ Quiet
                     /\ UNCHANGED <<st, refused>>
                ELSE /\ Quiet
                     /\ UNCHANGED <<st, toGuest, pending, refused>>
           ELSE /\ Quiet
                /\ UNCHANGED <<st, toGuest, pending, refused>>
    /\ UNCHANGED <<registered, serviceShared, prompts, ncmd, env, warnings>>

\* Guest g's proxy receives the head of its channel.
guestReceive(g) ==
    /\ UNCHANGED <<refused, env>>
    /\ toGuest[g] # <<>>
    /\ LET m == Head(toGuest[g]) IN
        /\ toGuest' = [toGuest EXCEPT ![g] = Tail(@)]
        /\ IF m.topic = "initiateJoin" /\ "initiateJoin" \in registered[g]
           THEN /\ st' = [st EXCEPT ![g] = onInitiateJoin(@, m.data)]
                /\ Quiet
                /\ UNCHANGED <<prompts, warnings>>
           ELSE IF m.topic \in MassTopics /\ "mass" \in registered[g]
           THEN /\ st' = [st EXCEPT ![g] = ApplyEvent(@, m.topic, m.data)]
                /\ PromptRoom(g, st[g], m.topic)
                /\ prompts' = [prompts EXCEPT ![g] = PromptsAfter(g, st[g], m.topic, m.data)]
                /\ warnings' = [warnings EXCEPT ![g] = WarningsAfter(g, st[g], m.topic, m.data)]
                /\ Quiet
           ELSE /\ Quiet
                /\ UNCHANGED <<st, prompts, warnings>>
    /\ UNCHANGED <<registered, serviceShared, pending, toHost, ncmd>>

----------------------------------------------------------------------------
(* Ungraceful departure *)

\* idToUsername.get(id): undefined when the map has no entry for id.
Lookup(map, id) ==
    IF \E e \in map : e[1] = id
    THEN (CHOOSE e \in map : e[1] = id)[2]
    ELSE Undefined

\* Guest g, which has joined at some time, drops out of the Live Share session:
\* its extension instance and its channels are gone (a returning guest is a
\* fresh instance), and the host's onDidChangePeers handler sends a Leave for
\* the username it finds under g's peer number.
peerRemoved(g) ==
    LET data == [username |-> Lookup(st[HostPeer].idToUsername, g), id |-> g]
        r == sendMassNotif(HostPeer, "leave", data, "none")
        watching == "peers" \in registered[HostPeer]
    IN
    /\ Command
    /\ registered[g] # {}
    /\ (watching /\ ~r.threw) => Room(HostPeer)
    /\ st' = [st EXCEPT ![g] = IdleState]
    /\ registered' = [registered EXCEPT ![g] = {}]
    /\ prompts' = [prompts EXCEPT ![g] = {}]
    /\ pending' = [(IF watching THEN r.pending ELSE pending) EXCEPT ![g] = <<>>]
    /\ toGuest' = [(IF watching THEN r.toGuest ELSE toGuest) EXCEPT ![g] = <<>>]
    /\ toHost' = [toHost EXCEPT ![g] = <<>>]
    /\ refused' = [refused EXCEPT ![g] = Null]
    /\ Note("peerRemoved", g, IF ~watching THEN "unwatched"
                              ELSE IF r.threw THEN "TypeError" ELSE "sent")
    /\ UNCHANGED <<serviceShared, env, warnings>>

----------------------------------------------------------------------------

Next ==
    \/ \E p \in Peers : hostSession(p)
    \/ \E p \in Peers, n \in HostNames : hostSessionName(p, n)
    \/ \E p \in Peers : joinSession(p)
    \/ \E p \in Peers, n \in Usernames : joinSessionName(p, n)
    \/ \E p \in Peers : promptCancel(p)
    \/ \E p \in Peers : resume(p)
    \/ \E p \in Peers : endSession(p)
    \/ \E p \in Peers : leaveSession(p)
    \/ \E p \in Peers : giveAccess(p)
    \/ \E p \in Peers : giveAccessPick(p)
    \/ \E p \in Peers : forceAccess(p)
    \/ \E p \in Peers : requestAccess(p)
    \/ \E p \in Peers : requestAccept(p)
    \/ \E g \in Guests : hostReceive(g)
    \/ \E g \in Guests : guestReceive(g)
    \/ \E g \in Guests : peerRemoved(g)

Spec == Init /\ [][Next]_vars

\* Reliable, fair delivery: a notification in flight is eventually handed to
\* its receiver, and code waiting behind an awaited notify eventually resumes.
\* Commands and prompts are the users' and carry no fairness.
Fairness ==
    /\ \A p \in Peers : WF_vars(resume(p))
    /\ \A g \in Guests : WF_vars(hostReceive(g))
    /\ \A g \in Guests : WF_vars(guestReceive(g))

FairSpec == Spec /\ Fairness

----------------------------------------------------------------------------
(* The event handlers on their own: two replicas that start from the same
   session state and are handed events in any order *)

\* users: the code never stores a username twice.
Rosters ==
    {us \in UNION {[1..n -> Usernames] : n \in 0..MaxUsers} :
        \A i, j \in DOMAIN us : us[i] = us[j] => i = j}

NameOf(p) == IF p = HostPeer THEN "alice" ELSE IF p % 2 = 1 THEN "bob" ELSE "carol"

ReplicaState(p, h, e, us) ==
    [inSession |-> TRUE, host |-> h, editor |-> e, users |-> us,
     idToUsername |-> {}, myUsername |-> NameOf(p), myNotifier |-> TRUE,
     liveshare |-> p, lastEditErrorTime |-> 0]

TransferEvents == {[from |-> f, to |-> v] : f \in HostNames, v \in Usernames}
LeaveEvents == {[username |-> u, id |-> 1] : u \in Usernames}
JoinEvents == {[username |-> u, peerNumber |-> 1] : u \in Usernames}

ReplicaInit ==
    /\ \E h \in Usernames, e \in Usernames, us \in Rosters :
          st = [p \in Peers |-> IF p \in Guests THEN ReplicaState(p, h, e, us)
                                ELSE IdleState]
    /\ registered = [p \in Peers |-> {}]
    /\ serviceShared = FALSE
    /\ prompts = [p \in Peers |-> {}]
    /\ pending = [p \in Peers |-> <<>>]
    /\ toHost = [g \in Guests |-> <<>>]
    /\ toGuest = [g \in Guests |-> <<>>]
    /\ ncmd = 0
    /\ refused = [g \in Guests |-> Null]
    /\ last = [op |-> "deliver", peer |-> HostPeer, out |-> "ok"]
    /\ clock = Epoch
    /\ warnings = [p \in Peers |-> <<>>]
    /\ lockFile = NoFile
    /\ fileEvents = [p \in Peers |-> FALSE]

\* Replica p runs the handler of `topic` on `data`; pending[p] keeps the events
\* p has been handed, in order.
Handle(p, topic, data, s) ==
    /\ Len(pending[p]) < MaxEvents
    /\ st' = [st EXCEPT ![p] = s]
    /\ pending' = [pending EXCEPT ![p] = Append(@, Cont("applied", topic, data, "none"))]
    /\ UNCHANGED <<registered, serviceShared, prompts, toHost, toGuest, ncmd, refused, last,
                   env, warnings>>

handleTransfer(p) ==
    \E d \in TransferEvents : Handle(p, "transferAccess", d, onTransferAccess(st[p], d))

handleLeave(p) ==
    \E d \in LeaveEvents : Handle(p, "leave", d, onLeave(st[p], d))

handleEnd(p) == Handle(p, "endSession", NoData, onEndSession(st[p], NoData))

handleJoin(p) ==
    \E d \in JoinEvents : Handle(p, "join", d, onJoin(st[p], d))

ReplicaNext ==
    \/ \E p \in Guests : handleTransfer(p)
    \/ \E p \in Guests : handleLeave(p)
    \/ \E p \in Guests : handleEnd(p)
    \/ \E p \in Guests : handleJoin(p)

ReplicaSpec == ReplicaInit /\ [][ReplicaNext]_vars

----------------------------------------------------------------------------
(* Violation detection: the change listener and the detectChange warnings of a
   session that is under way *)

\* The instants at which the clock is read: around the multiples of the
\* interval, where the rate limit changes its answer.
Instants ==
    {Epoch + k * ERROR_INTERVAL_MS + e : k \in 0..MaxIntervals, e \in {0, 1}}

\* Time passes.
tick ==
    /\ \E t \in Instants : t > clock /\ clock' = t
    /\ UNCHANGED <<st, registered, serviceShared, prompts, pending, toHost, toGuest, ncmd,
                   refused, last, warnings, lockFile, fileEvents>>

\* onDidChangeTextDocument at peer p for a change that Live Share attributes to
\* peer a (getPeerForTextDocumentChangeEvent; with liveshare null there is no
\* answer).  The attribution is Live Share's and may name the wrong peer.
documentChange(p, a) ==
    LET s == st[p]
        peerNumber == IF s.liveshare = NoPeer THEN NoPeer ELSE a
    IN
    /\ ncmd < MaxEdits
    /\ Command
    /\ IF ~s.inSession
       THEN /\ Note("documentChange", p, "NotInSession")
            /\ UNCHANGED <<pending, toHost, toGuest>>
       ELSE IF peerNumber = getMyId(s)
       THEN /\ Note("documentChange", p, "mine")
            /\ UNCHANGED <<pending, toHost, toGuest>>
       ELSE SendCommand(p, "detectChange", [perpetratorID |-> peerNumber], "none",
                        "documentChange")
    /\ UNCHANGED <<st, registered, serviceShared, prompts, refused, env, warnings>>

SessionRoster == [i \in 1..(NumGuests + 1) |-> NameOf(i - 1)]

\* alice hosts, every guest has joined under its own name, the token is with
\* any of them, nothing is in flight.
BlameInit ==
    /\ \E e \in Range(SessionRoster) :
          st = [p \in Peers |->
                  [inSession |-> TRUE, host |-> NameOf(HostPeer), editor |-> e,
                   users |-> SessionRoster, idToUsername |-> {},
                   myUsername |-> NameOf(p), myNotifier |-> TRUE,
                   liveshare |-> p, lastEditErrorTime |-> 0]]
    /\ registered = [p \in Peers |-> IF p = HostPeer
                                       THEN {"join", "peers", "relay", "local"}
                                       ELSE {"initiateJoin", "mass"}]
    /\ serviceShared = TRUE
    /\ prompts = [p \in Peers |-> {}]
    /\ pending = [p \in Peers |-> <<>>]
    /\ toHost = [g \in Guests |-> <<>>]
    /\ toGuest = [g \in Guests |-> <<>>]
    /\ ncmd = 0
    /\ refused = [g \in Guests |-> Null]
    /\ last = [op |-> "activate", peer |-> HostPeer, out |-> "ok"]
    /\ clock = Epoch
    /\ warnings = [p \in Peers |-> <<>>]
    /\ lockFile = NoFile
    /\ fileEvents = [p \in Peers |-> FALSE]

BlameNext ==
    \/ \E p \in Peers, a \in Peers : documentChange(p, a)
    \/ tick
    \/ \E p \in Peers : resume(p)
    \/ \E g \in Guests : hostReceive(g)
    \/ \E g \in Guests : guestReceive(g)
    \/ \E p \in Peers : ncmd < MaxEdits /\ forceAccess(p)
    \/ \E p \in Peers : ncmd < MaxEdits /\ leaveSession(p)

BlameSpec == BlameInit /\ [][BlameNext]_vars

\* The session under way with reliable, fair delivery.
FairBlameSpec == BlameSpec /\ Fairness

----------------------------------------------------------------------------
(* The file-lock variant, src/unnamed/part_000: the windows of one workspace
   share the .editlock file.  The file system watcher of line 63 is created
   for the pattern lockPath, which is '' at that point and is never assigned:
   the pattern matches no file, so its handler (lines 64-90) never runs. *)

NumWindows == 2
MaxLockOps == 5
LOCK_ERROR_INTERVAL_MS == 1500

Windows == 1..NumWindows

\* What the user types into an input box: never the empty string, which
\* returns from the command like a dismissed box (lines 144, 172).
LockInputs == {"alice", "bob", " bob ", " "}

\* String.prototype.trim on the inputs above.
trim(input) ==
    CASE input = " bob " -> "bob"
      [] input = " " -> ""
      [] OTHER -> input

\* The module-level variables of lines 8-10.
LockIdle == [isSessionActive |-> FALSE, userName |-> "", lastEditErrorTime |-> 0]

NoLock == [kind |-> "null"]

\* A reader that takes text that is not JSON for an empty lock record.
readLock_textIsLock(file) ==
    IF file.kind = "missing" THEN NoLock
    ELSE IF file.kind = "lock" THEN file ELSE LockRecord("", <<>>, <<>>)

\* Lines 38-46: null when the file is missing or JSON.parse throws.
readLock(file) == IF file.kind = "lock" THEN file ELSE NoLock

\* Line 51: the file holds the record.
writeLock(data) == LockRecord(data.owner, data.users, data.requests)

\* Any lock record counts as mine.
hasEditLock_anyOwner(s, file) == readLock(file).kind = "lock"

\* Lines 54-57.
hasEditLock(s, file) ==
    LET lock == readLock(file) IN lock.kind = "lock" /\ lock.owner = s.userName

push(seq, x) == IF Includes(seq, x) THEN seq ELSE Append(seq, x)

network == <<registered, serviceShared, pending, toHost, toGuest, refused>>

\* fs.writeFileSync (line 51): writing a file that exists is a change of it,
\* reported to every window; writing a missing file creates it, and nothing
\* listens for creations.
FileWritten ==
    fileEvents' = IF lockFile.kind = "missing" THEN fileEvents
                  ELSE [p \in Windows |-> TRUE]

LockCommand == /\ ncmd < MaxLockOps
               /\ ncmd' = ncmd + 1

LockInit ==
    /\ st = [p \in Windows |-> LockIdle]
    /\ registered = [p \in Windows |-> {}]
    /\ serviceShared = FALSE
    /\ prompts = [p \in Windows |-> {}]
    /\ pending = [p \in Windows |-> <<>>]
    /\ toHost = [p \in Windows |-> <<>>]
    /\ toGuest = [p \in Windows |-> <<>>]
    /\ ncmd = 0
    /\ refused = [p \in Windows |-> Null]
    /\ last = [op |-> "activate", peer |-> 1, out |-> "ok"]
    /\ clock = Epoch
    /\ warnings = [p \in Windows |-> <<>>]
    /\ lockFile = NoFile
    /\ fileEvents = [p \in Windows |-> FALSE]

\* onetype.hostSession up to its input box (line 143).
lockHostSession(p) ==
    /\ LockCommand
    /\ OpenPrompt(p, Prompt("lockHostName", {}, NoData))
    /\ Note("hostSession", p, "prompt")
    /\ UNCHANGED <<st, network, env, warnings>>

\* onetype.hostSession from the answer of the input box (lines 144-161).
lockHostSessionName(p, input) ==
    LET name == trim(input)
        existingLock == readLock(lockFile)
    IN
    /\ \E pr \in prompts[p] : pr.kind = "lockHostName" /\ ClosePrompt(p, pr)
    /\ IF existingLock.kind = "lock" /\ Includes(existingLock.users, name)
       THEN /\ Note("hostSession", p, "NameTaken")
            /\ UNCHANGED <<st, lockFile, fileEvents>>
       ELSE /\ st' = [st EXCEPT ![p].userName = name, ![p].isSessionActive = TRUE]
            /\ lockFile' = writeLock([owner |-> name, users |-> <<name>>, requests |-> <<>>])
            /\ FileWritten
            /\ Note("hostSession", p, "started")
    /\ UNCHANGED <<network, ncmd, clock, warnings>>

\* onetype.joinSession up to its first input box (lines 165-171).
lockJoinSession(p) ==
    /\ LockCommand
    /\ IF lockFile.kind = "missing"
       THEN /\ Note("joinSession", p, "NoSessionFound")
            /\ UNCHANGED prompts
       ELSE /\ OpenPrompt(p, Prompt("lockJoinName", {}, NoData))
            /\ Note("joinSession", p, "prompt")
    /\ UNCHANGED <<st, network, env, warnings>>

\* A round of the loop without the test of line 179.
lockJoinSessionName_anyName(p, input) ==
    LET name == trim(input)
        existingLock == readLock(lockFile)
    IN
    /\ \E pr \in prompts[p] :
        /\ pr.kind = "lockJoinName"
        /\ existingLock.kind = "lock"
        /\ ClosePrompt(p, pr)
        /\ st' = [st EXCEPT ![p].userName = name, ![p].isSessionActive = TRUE]
        /\ lockFile' = writeLock([existingLock EXCEPT !.users = Append(@, name)])
        /\ FileWritten
        /\ Note("joinSession", p, "joined")
    /\ UNCHANGED <<network, ncmd, clock, warnings>>

\* One round of the loop of onetype.joinSession (lines 172-188): a taken name
\* opens the input box again.
lockJoinSessionName(p, input) ==
    LET name == trim(input)
        existingLock == readLock(lockFile)
    IN
    /\ \E pr \in prompts[p] :
        /\ pr.kind = "lockJoinName"
        /\ IF existingLock.kind # "lock"
           THEN /\ ClosePrompt(p, pr)
                /\ Note("joinSession", p, "FailedToJoin")
                /\ UNCHANGED <<st, lockFile, fileEvents>>
           ELSE IF Includes(existingLock.users, name)
           THEN /\ Note("joinSession", p, "NameTaken")
                /\ UNCHANGED <<st, lockFile, fileEvents, prompts>>
           ELSE /\ ClosePrompt(p, pr)
                /\ st' = [st EXCEPT ![p].userName = name, ![p].isSessionActive = TRUE]
                /\ lockFile' = writeLock([existingLock EXCEPT !.users = Append(@, name)])
                /\ FileWritten
                /\ Note("joinSession", p, "joined")
    /\ UNCHANGED <<network, ncmd, clock, warnings>>

\* onetype.forceAccess (lines 116-124).
lockForceAccess(p) ==
    LET found == readLock(lockFile)
        lock == IF found.kind = "lock" THEN found ELSE LockRecord("", <<>>, <<>>)
        userName == st[p].userName
    IN
    /\ LockCommand
    /\ lockFile' = writeLock([lock EXCEPT !.owner = userName, !.users = push(@, userName)])
    /\ FileWritten
    /\ Note("forceAccess", p, "taken")
    /\ UNCHANGED <<st, prompts, network, clock, warnings>>

\* onetype.requestAccess (lines 126-140).
lockRequestAccess(p) ==
    LET lock == readLock(lockFile)
        userName == st[p].userName
    IN
    /\ LockCommand
    /\ IF lock.kind # "lock"
       THEN /\ Note("requestAccess", p, "NoSessionFound")
            /\ UNCHANGED <<lockFile, fileEvents>>
       ELSE IF Includes(lock.requests, userName)
       THEN /\ Note("requestAccess", p, "AlreadyRequested")
            /\ UNCHANGED <<lockFile, fileEvents>>
       ELSE /\ lockFile' = writeLock([lock EXCEPT !.requests = Append(@, userName),
                                                  !.users = push(@, userName)])
            /\ FileWritten
            /\ Note("requestAccess", p, "requested")
    /\ UNCHANGED <<st, prompts, network, clock, warnings>>

\* onDidChangeTextDocument (lines 93-108) for a change to the document of the
\* active editor (active) or to another document.
lockDocumentChange(p, active) ==
    LET s == st[p]
        op == IF active THEN "change" ELSE "changeElsewhere"
    IN
    /\ LockCommand
    /\ IF ~s.isSessionActive \/ hasEditLock(s, lockFile)
       THEN /\ Note(op, p, "kept")
            /\ UNCHANGED <<st, warnings>>
       ELSE IF ~active
       THEN /\ Note(op, p, "kept")
            /\ UNCHANGED <<st, warnings>>
       ELSE /\ IF clock - s.lastEditErrorTime > LOCK_ERROR_INTERVAL_MS
               THEN /\ st' = [st EXCEPT ![p].lastEditErrorTime = clock]
                    /\ warnings' = [warnings EXCEPT ![p] = Append(@, clock)]
               ELSE UNCHANGED <<st, warnings>>
            /\ Note(op, p, "reverted")
    /\ UNCHANGED <<prompts, network, env>>

\* onWillSaveTextDocument (lines 110-114).
lockWillSave(p) ==
    LET s == st[p] IN
    /\ LockCommand
    /\ IF ~s.isSessionActive \/ hasEditLock(s, lockFile)
       THEN Note("save", p, "saved")
       ELSE Note("save", p, "vetoed")
    /\ UNCHANGED <<st, prompts, network, env, warnings>>

LockInstants ==
    {Epoch + k * LOCK_ERROR_INTERVAL_MS + e : k \in 0..MaxIntervals, e \in {0, 1}}

lockTick ==
    /\ \E t \in LockInstants : t > clock /\ clock' = t
    /\ UNCHANGED <<st, prompts, network, ncmd, last, warnings, lockFile, fileEvents>>

\* Something outside the extension deletes the file or leaves text in it that
\* is not JSON (an editor, a version control operation, a write cut short).
externalWrite(file) ==
    /\ LockCommand
    /\ file # lockFile
    /\ lockFile' = file
    /\ fileEvents' = IF lockFile.kind # "missing" /\ file.kind # "missing"
                     THEN [p \in Windows |-> TRUE] ELSE fileEvents
    /\ Note("external", 1, file.kind)
    /\ UNCHANGED <<st, prompts, network, clock, warnings>>

LOCK_FILENAME == ".editlock"

\* Line 11: the path the watcher of line 63 is created for; nothing assigns it.
lockPath == ""

\* vscode.workspace.createFileSystemWatcher(pattern) reports the changes of
\* the paths its glob pattern matches.  A pattern without wildcards matches
\* the path equal to it; the empty pattern matches no path.
GlobMatches(pattern, path) == pattern # "" /\ pattern = path

\* The handler of the watcher (lines 64-77), up to its modal: the owner is
\* asked about the first request of the lock it has just read.
onDidChange(p) ==
    LET s == st[p]
        lock == readLock(lockFile)
    IN
    IF ~s.isSessionActive \/ lock.kind # "lock"
    THEN Note("fileChange", p, "ignored") /\ UNCHANGED prompts
    ELSE IF lock.owner # s.userName
    THEN Note("fileChange", p, "NotOwner") /\ UNCHANGED prompts
    ELSE IF lock.requests # <<>>
    THEN /\ OpenPrompt(p, Prompt("approve", {}, lock))
         /\ Note("fileChange", p, "prompt")
    ELSE Note("fileChange", p, "NoRequest") /\ UNCHANGED prompts

\* A change of .editlock reaches window p: its handler runs if the watcher of
\* line 63 reports the change.
fileChanged(p) ==
    /\ fileEvents[p]
    /\ fileEvents' = [fileEvents EXCEPT ![p] = FALSE]
    /\ IF GlobMatches(lockPath, LOCK_FILENAME)
       THEN onDidChange(p)
       ELSE Note("fileChange", p, "unwatched") /\ UNCHANGED prompts
    /\ UNCHANGED <<st, network, ncmd, clock, warnings, lockFile>>

\* The modal of the handler is opened by no step of LockNext, lockPath being
\* what it is; its two answers are kept as the code has them.
\* The owner answers 'Approve' (lines 79-84): the lock read before the modal
\* is written back with its first request as the owner.
lockApprove(p) ==
    /\ \E pr \in prompts[p] :
        /\ pr.kind = "approve"
        /\ ClosePrompt(p, pr)
        /\ lockFile' = writeLock([pr.data EXCEPT !.owner = Head(pr.data.requests),
                                                 !.requests = Tail(@)])
    /\ FileWritten
    /\ Note("approve", p, "approved")
    /\ UNCHANGED <<st, network, ncmd, clock, warnings>>

\* The owner answers 'Deny' or dismisses the modal (lines 85-88).
lockDeny(p) ==
    /\ \E pr \in prompts[p] :
        /\ pr.kind = "approve"
        /\ ClosePrompt(p, pr)
        /\ lockFile' = writeLock([pr.data EXCEPT !.requests = Tail(@)])
    /\ FileWritten
    /\ Note("approve", p, "denied")
    /\ UNCHANGED <<st, network, ncmd, clock, warnings>>

\* An input box of the file-lock variant is dismissed: its command returns
\* (lines 144, 172).
lockPromptCancel(p) ==
    /\ \E pr \in prompts[p] :
        /\ pr.kind \in {"lockHostName", "lockJoinName"}
        /\ ClosePrompt(p, pr)
        /\ Note(pr.kind, p, "cancelled")
    /\ UNCHANGED <<st, network, ncmd, env, warnings>>

LockNext ==
    \/ \E p \in Windows : fileChanged(p)
    \/ \E p \in Windows : lockHostSession(p)
    \/ \E p \in Windows, input \in LockInputs : lockHostSessionName(p, input)
    \/ \E p \in Windows : lockJoinSession(p)
    \/ \E p \in Windows, input \in LockInputs : lockJoinSessionName(p, input)
    \/ \E p \in Windows : lockPromptCancel(p)
    \/ \E p \in Windows : lockForceAccess(p)
    \/ \E p \in Windows : lockRequestAccess(p)
    \/ \E p \in Windows, active \in BOOLEAN : lockDocumentChange(p, active)
    \/ \E p \in Windows : lockWillSave(p)
    \/ lockTick
    \/ \E file \in {NoFile, Unparseable} : externalWrite(file)

LockSpec == LockInit /\ [][LockNext]_vars

\* The windows alone: the steps of the commands and of the watcher, with no
\* edits, no clock and nobody else touching the file.
LockRaceNext ==
    \/ \E p \in Windows : lockHostSession(p)
    \/ \E p \in Windows, input \in LockInputs : lockHostSessionName(p, input)
    \/ \E p \in Windows : lockJoinSession(p)
    \/ \E p \in Windows, input \in LockInputs : lockJoinSessionName(p, input)
    \/ \E p \in Windows : lockPromptCancel(p)
    \/ \E p \in Windows : lockForceAccess(p)
    \/ \E p \in Windows : lockRequestAccess(p)
    \/ \E p \in Windows : fileChanged(p)

LockRaceSpec == LockInit /\ [][LockRaceNext]_vars

----------------------------------------------------------------------------
(* Vocabulary of the properties *)

InSession(p) == st[p].inSession

UserSet(p) == Range(st[p].users)

IsEditor(p) == st[p].myUsername = st[p].editor

\* Nothing is in flight, no handler is suspended, no prompt is open.
Quiescent ==
    /\ \A g \in Guests : toHost[g] = <<>> /\ toGuest[g] = <<>>
    /\ \A p \in Peers : pending[p] = <<>> /\ prompts[p] = {}

----------------------------------------------------------------------------
(* C1: in every reachable state, at every peer that is in a session, the
   local editor is a member of the local users. *)
C1_EditorInUsers ==
    \A p \in Peers : InSession(p) => st[p].editor \in UserSet(p)

(* C2: in every reachable state, at every peer that is in a session, the
   local host is a member of the local users. *)
C2_HostInUsers ==
    \A p \in Peers : InSession(p) => st[p].host \in UserSet(p)

(* C3: single-writer mutual exclusion across replicas: no two distinct peers
   that are in a session are both the editor in their own view. *)
C3_SingleWriter ==
    \A p, q \in Peers :
        (p # q /\ InSession(p) /\ InSession(q)) => ~(IsEditor(p) /\ IsEditor(q))

(* C4: convergence: whenever no message is in flight and no handler is
   suspended, all peers that are in a session hold the same editor and the
   same set of users. *)
C4_Convergence ==
    Quiescent =>
        \A p, q \in Peers :
            (InSession(p) /\ InSession(q)) =>
                (st[p].editor = st[q].editor /\ UserSet(p) = UserSet(q))

----------------------------------------------------------------------------
(* Steps, recognised by what they consume; deliveries and resumptions are the
   steps that leave last.op = "deliver" *)

\* Guest g takes the head of its channel, a notification on `topic`.
GuestTakes(g, topic) ==
    /\ toGuest[g] # <<>>
    /\ Head(toGuest[g]).topic = topic
    /\ toGuest'[g] = Tail(toGuest[g])
    /\ last'.op = "deliver"

\* The host takes the head of guest g's channel, a notification on `topic`.
HostTakes(g, topic) ==
    /\ toHost[g] # <<>>
    /\ Head(toHost[g]).topic = topic
    /\ toHost'[g] = Tail(toHost[g])
    /\ last'.op = "deliver"

\* Peer p resumes behind its own awaited notify of `topic` and runs the handler.
SelfApplies(p, topic) ==
    /\ pending[p] # <<>>
    /\ Head(pending[p]).topic = topic
    /\ Head(pending[p]).k \in {"relayed", "selfNotify"}
    /\ pending'[p] = Tail(pending[p])
    /\ last'.op = "deliver"

\* Message m is on its way to every guest that is in a session and to the
\* host's own handler.
BroadcastBy(p, m) ==
    /\ \A x \in Guests : InSession(x) => toGuest'[x] = Append(toGuest[x], m)
    /\ pending'[p] # <<>>
    /\ LET c == pending'[p][Len(pending'[p])] IN
          c.topic = m.topic /\ c.data = m.data /\ c.k \in {"relayed", "selfNotify"}
    /\ Len(pending'[p]) = Len(pending[p]) + 1

\* Peer p has put event (topic, data) on the way to all peers: broadcast if p
\* is the host, a relay request to the host if p is a guest.
SentToAll(p, topic, data) ==
    IF p = HostPeer
    THEN BroadcastBy(p, Msg(topic, data))
    ELSE toHost'[p] = Append(toHost[p], Msg(SEND_ALL_PREF \o topic, data))

\* The host, in its session, re-publishes a guest's relay request on the bare
\* topic with the same payload.
RelayFansOut(topic) ==
    \A g \in Guests :
        (HostTakes(g, SEND_ALL_PREF \o topic) /\ InSession(HostPeer)) =>
            BroadcastBy(HostPeer, Msg(topic, Head(toHost[g]).data))

\* Every peer that is in a session and takes a Transfer ends with editor = to,
\* its users and host as before.
TransferApplies ==
    /\ \A g \in Guests :
          (GuestTakes(g, "transferAccess") /\ InSession(g)) =>
              /\ st'[g].editor = Head(toGuest[g]).data.to
              /\ st'[g].users = st[g].users
              /\ st'[g].host = st[g].host
    /\ \A p \in Peers :
          (SelfApplies(p, "transferAccess") /\ InSession(p)) =>
              /\ st'[p].editor = Head(pending[p]).data.to
              /\ st'[p].users = st[p].users
              /\ st'[p].host = st[p].host

----------------------------------------------------------------------------
(* C5: Give Access invoked by a peer that is not in a session, or whose
   username differs from its local editor, is rejected: nothing is sent, no
   target prompt opens, and the caller's replica is unchanged. *)
C5_GiveAccessAuthorization ==
    [][\A p \in Peers :
          (/\ ncmd' = ncmd + 1
           /\ last'.op = "giveAccess" /\ last'.peer = p
           /\ (~st[p].inSession \/ st[p].myUsername # st[p].editor))
          => /\ last'.out = "NotEditor"
             /\ UNCHANGED <<st, prompts, pending, toHost, toGuest, registered>>]_vars

\* A peer that is in a session and is not the editor has had its Give Access
\* rejected.
C5_Witness ==
    /\ last.op = "giveAccess" /\ last.out = "NotEditor"
    /\ st[last.peer].inSession
    /\ st[last.peer].myUsername # st[last.peer].editor

(* C6: when a peer that is in a session picks target t in Give Access, the
   Transfer {from: itself, to: t} goes to every peer (broadcast by the host,
   or relayed by it for a guest), and every peer in a session, the sender
   included, that takes it ends with editor = t, users and host unchanged. *)
C6_GiveAccessEffect ==
    [][/\ \A p \in Peers : \A pr \in prompts[p] :
            (/\ pr.kind = "pick" /\ pr \notin prompts'[p]
             /\ last'.op = "giveAccess" /\ last'.peer = p
             /\ InSession(p))
            => \E t \in Range(pr.targets) :
                  SentToAll(p, "transferAccess", [from |-> st[p].myUsername, to |-> t])
       /\ RelayFansOut("transferAccess")
       /\ TransferApplies]_vars

(* C7: when a peer that is in a session and is not the editor invokes Force
   Take Access, the Transfer {from: editor, to: itself} goes to every peer with
   no step of the editor, and every peer in a session that takes it ends with
   editor = the taker; this holds for the host and for every guest. *)
C7_ForceTakeEffect ==
    [][/\ \A p \in Peers :
            (/\ ncmd' = ncmd + 1
             /\ last'.op = "forceAccess" /\ last'.peer = p
             /\ InSession(p) /\ ~IsEditor(p))
            => SentToAll(p, "transferAccess",
                         [from |-> st[p].editor, to |-> st[p].myUsername])
       /\ RelayFansOut("transferAccess")
       /\ \A g \in Guests :
            (GuestTakes(g, "transferAccess") /\ InSession(g)) =>
                st'[g].editor = Head(toGuest[g]).data.to
       /\ \A p \in Peers :
            (SelfApplies(p, "transferAccess") /\ InSession(p)) =>
                st'[p].editor = Head(pending[p]).data.to]_vars

\* What the Leave of user u must do to the replica s of a peer that stays.
LeaveReassigns(s, t, u) ==
    /\ ~Includes(t.users, u)
    /\ s.editor = u => (t.editor = s.host /\ t.editor # Null /\ t.editor # u)

(* C8: when the peer holding the token invokes Leave Session, its Leave goes to
   every peer, and every peer that stays in the session and takes the Leave of
   user u no longer lists u and, if u was its editor, has editor = host, an
   editor that is neither null nor u. *)
C8_LeaveReassignment ==
    [][/\ \A p \in Peers :
            (/\ ncmd' = ncmd + 1
             /\ last'.op = "leaveSession" /\ last'.peer = p
             /\ InSession(p) /\ IsEditor(p))
            => SentToAll(p, "leave", [username |-> st[p].myUsername, id |-> p])
       /\ RelayFansOut("leave")
       /\ \A g \in Guests :
            (GuestTakes(g, "leave") /\ InSession(g)) =>
                LeaveReassigns(st[g], st'[g], Head(toGuest[g]).data.username)
       /\ \A p \in Peers :
            (SelfApplies(p, "leave") /\ InSession(p) /\ Head(pending[p]).then = "none") =>
                LeaveReassigns(st[p], st'[p], Head(pending[p]).data.username)]_vars

(* C9: when the host, in its session, takes a join for a username u that is not
   in its users, its users become the previous roster plus u, its editor and
   host stay, and the new roster goes to the joiner and to every guest in the
   session; every guest that takes the initiateJoin snapshot ends with the
   snapshot's users, and a guest already in the session keeps its editor and
   host. *)
C9_JoinRosterUpdate ==
    [][/\ \A g \in Guests :
            (/\ HostTakes(g, "join") /\ InSession(HostPeer)
             /\ ~Includes(st[HostPeer].users, Head(toHost[g]).data.username))
            => LET h == st[HostPeer]
                   roster == Append(h.users, Head(toHost[g]).data.username)
                   m == Msg("initiateJoin",
                            [host |-> h.host, editor |-> h.editor, users |-> roster,
                             idToUsername |-> h.idToUsername])
               IN /\ st'[HostPeer].users = roster
                  /\ st'[HostPeer].editor = h.editor
                  /\ st'[HostPeer].host = h.host
                  /\ \A x \in Guests :
                        (InSession(x) \/ x = g) => toGuest'[x] = Append(toGuest[x], m)
       /\ \A x \in Guests :
            GuestTakes(x, "initiateJoin") =>
                /\ st'[x].users = Head(toGuest[x]).data.users
                /\ InSession(x) => (/\ st'[x].editor = st[x].editor
                                    /\ st'[x].host = st[x].host)]_vars

(* C10: when the host, in its session, takes a join for a username already in
   its users, no replica changes and nothing is broadcast, and a guest whose
   current username was refused in this way is never in a session under that
   username, whatever initiateJoin snapshots reach it later. *)
C10_NameTaken ==
    [][/\ \A g \in Guests :
            (/\ HostTakes(g, "join") /\ InSession(HostPeer)
             /\ Includes(st[HostPeer].users, Head(toHost[g]).data.username))
            => UNCHANGED <<st, toGuest>>
       /\ \A g \in Guests :
            (refused'[g] # Null /\ st'[g].myUsername = refused'[g]) => ~InSession(g)']_vars

----------------------------------------------------------------------------
(* C11: a replica that is handed the same Join, Leave, Transfer or End event
   twice in a row has, after the second time, the host, editor and users it
   had after the first. *)
C11_Idempotence ==
    [][\A p \in Guests :
          (/\ pending[p] # <<>>
           /\ Len(pending'[p]) = Len(pending[p]) + 1
           /\ pending'[p][Len(pending'[p])] = pending[p][Len(pending[p])])
          => /\ st'[p].host = st[p].host
             /\ st'[p].editor = st[p].editor
             /\ st'[p].users = st[p].users
             /\ st'[p].inSession = st[p].inSession]_vars

\* Replica 1 was handed the same Leave twice, and the first one changed its
\* roster and editor (replica 2 still holds the common initial state).
C11_Witness ==
    /\ pending[2] = <<>>
    /\ Len(pending[1]) = 2
    /\ pending[1][1] = pending[1][2]
    /\ pending[1][1].topic = "leave"
    /\ st[1].users # st[2].users
    /\ st[1].editor # st[2].editor

(* C12: two replicas with the same initial state, one handed Leave(u) then
   Transfer(v), the other Transfer(v) then Leave(u), end with the same editor
   and the same users, also when v = u. *)
C12_LeaveTransferOrder ==
    \A p, q \in Guests :
        (/\ Len(pending[p]) = 2 /\ Len(pending[q]) = 2
         /\ pending[p][1].topic = "leave" /\ pending[p][2].topic = "transferAccess"
         /\ pending[q] = <<pending[p][2], pending[p][1]>>)
        => /\ st[p].editor = st[q].editor
           /\ st[p].users = st[q].users

\* The pre-join state of the session variables.
IsIdle(s) ==
    /\ ~s.inSession
    /\ s.host = Null /\ s.editor = Null
    /\ s.users = <<>>
    /\ s.myUsername = Null

(* C13: when the host, in its session and holding its service, invokes End
   Session, the End-Session event goes to every guest in the session and to
   the host's own handler; every guest in the session that takes it, and the
   host, in its session and holding its service, when it applies it, is back
   in the pre-join state: inSession false, host and editor null, users empty,
   myUsername null. *)
C13_EndSession ==
    [][/\ (/\ ncmd' = ncmd + 1
            /\ last'.op = "endSession" /\ last'.peer = HostPeer
            /\ InSession(HostPeer) /\ st[HostPeer].myNotifier)
           => BroadcastBy(HostPeer, Msg("endSession", NoData))
       /\ \A g \in Guests :
            (GuestTakes(g, "endSession") /\ InSession(g)) => IsIdle(st'[g])
       /\ (/\ SelfApplies(HostPeer, "endSession")
            /\ InSession(HostPeer) /\ st[HostPeer].myNotifier)
            => IsIdle(st'[HostPeer])]_vars

\* Host, one join and End Session: a guest that had joined has taken the End
\* event and is idle, while the host has not yet applied its own copy.
C13_Witness ==
    /\ ncmd = 3
    /\ InSession(HostPeer)
    /\ pending[HostPeer] # <<>>
    /\ Head(pending[HostPeer]).topic = "endSession"
    /\ \E g \in Guests :
          /\ "mass" \in registered[g]
          /\ IsIdle(st[g])
          /\ toGuest[g] = <<>>
          /\ Len(st[HostPeer].users) = 2

(* C14: End Session is the host's operation: an End Session request that a
   guest sent is not re-published by the host, neither to the guests nor to
   the host's own handler, so no replica is discarded by it. *)
C14_EndSessionHostOnly ==
    [][\A g \in Guests :
          HostTakes(g, SEND_ALL_PREF \o "endSession")
              => UNCHANGED <<st, toGuest, pending>>]_vars

(* C15: when a guest that is in a session invokes Leave Session, the command
   goes on to reset the guest; the reset happens when the guest's own awaited
   send returns, whatever the host has done with the Leave, and leaves the
   guest in the pre-join state; every peer that stays in the session and takes
   the Leave of user u no longer lists u. *)
C15_LeaveIsLocal ==
    [][/\ \A g \in Guests :
            (/\ ncmd' = ncmd + 1
             /\ last'.op = "leaveSession" /\ last'.peer = g
             /\ InSession(g))
            => /\ Len(pending'[g]) = Len(pending[g]) + 1
               /\ pending'[g][Len(pending'[g])].then = "leave"
       /\ \A g \in Guests :
            (/\ pending[g] # <<>>
             /\ Head(pending[g]).then = "leave"
             /\ pending'[g] = Tail(pending[g])
             /\ last'.op = "deliver")
            => IsIdle(st'[g])
       /\ \A g \in Guests :
            (GuestTakes(g, "leave") /\ InSession(g)) =>
                ~Includes(st'[g].users, Head(toGuest[g]).data.username)
       /\ (/\ SelfApplies(HostPeer, "leave") /\ InSession(HostPeer)
            /\ Head(pending[HostPeer]).then = "none")
            => ~Includes(st'[HostPeer].users, Head(pending[HostPeer]).data.username)]_vars

(* C16: when a guest that is in the session under a username u listed by the
   host drops out without Leave Session, the host, in its session, sends the
   Leave of u to every other guest in the session and to its own handler. *)
C16_UngracefulDeparture ==
    [][\A g \in Guests :
          (/\ last'.op = "peerRemoved" /\ last'.peer = g
           /\ ncmd' = ncmd + 1
           /\ InSession(HostPeer) /\ st[HostPeer].myNotifier
           /\ InSession(g)
           /\ Includes(st[HostPeer].users, st[g].myUsername))
          => LET m == Msg("leave", [username |-> st[g].myUsername, id |-> g]) IN
             /\ \A x \in Guests \ {g} :
                    InSession(x) => toGuest'[x] = Append(toGuest[x], m)
             /\ Len(pending'[HostPeer]) = Len(pending[HostPeer]) + 1
             /\ pending'[HostPeer][Len(pending'[HostPeer])].data = m.data]_vars

(* C17: when a peer that is not in a session and holds its shared service
   completes Host Session with username n, it is in a session with
   host = editor = myUsername = n and users = <<n>>, and the join handler and
   the relay and local handlers of the broadcast topics are registered. *)
C17_HostSessionSuccess ==
    [][\A p \in Peers :
          (/\ last'.op = "hostSession" /\ last'.out = "hosting" /\ last'.peer = p
           /\ prompts'[p] # prompts[p]
           /\ ~InSession(p) /\ st[p].myNotifier)
          => /\ st'[p].inSession
             /\ st'[p].myUsername \in Usernames
             /\ st'[p].host = st'[p].myUsername
             /\ st'[p].editor = st'[p].myUsername
             /\ st'[p].users = <<st'[p].myUsername>>
             /\ {"join", "relay", "local"} \subseteq registered'[p]]_vars

\* The host has just completed Host Session.
C17_Witness ==
    /\ last = [op |-> "hostSession", peer |-> HostPeer, out |-> "hosting"]
    /\ InSession(HostPeer)
    /\ st[HostPeer].users = <<"alice">>
    /\ "relay" \in registered[HostPeer]

\* A guest whose join request has been sent and has had no answer.
Joining(p) ==
    /\ p \in Guests
    /\ ~st[p].inSession
    /\ st[p].myUsername # Null
    /\ st[p].myNotifier

(* C18: Host Session invoked by the Live Share host, or Join Session invoked
   by a guest, when that peer is in a session or has sent a join request not
   yet answered, fails with AlreadyInSession: no prompt opens, nothing is sent
   and the session variables are unchanged. *)
C18_AlreadyInSession ==
    [][\A p \in Peers :
          (/\ ncmd' = ncmd + 1
           /\ last'.peer = p
           /\ \/ last'.op = "hostSession" /\ p = HostPeer
              \/ last'.op = "joinSession" /\ p \in Guests
           /\ (InSession(p) \/ Joining(p)))
          => /\ last'.out = "AlreadyInSession"
             /\ UNCHANGED <<st, prompts, pending, toHost, toGuest>>]_vars

(* C19: every initiateJoin the host sends carries the host, editor and users
   the host holds when it sends it, and a guest whose initiateJoin handler
   takes it holds exactly that host, editor and users afterwards and is in
   the session. *)
C19_FullStateOnJoin ==
    [][/\ \A g, x \in Guests :
            (HostTakes(g, "join") /\ toGuest'[x] # toGuest[x]) =>
                toGuest'[x] = Append(toGuest[x],
                    Msg("initiateJoin",
                        [host |-> st'[HostPeer].host, editor |-> st'[HostPeer].editor,
                         users |-> st'[HostPeer].users,
                         idToUsername |-> st'[HostPeer].idToUsername]))
       /\ \A g \in Guests :
            (/\ HostTakes(g, "join") /\ "join" \in registered[HostPeer]
             /\ ~Includes(st[HostPeer].users, Head(toHost[g]).data.username))
            => toGuest'[g] # toGuest[g]
       /\ \A x \in Guests :
            (GuestTakes(x, "initiateJoin") /\ "initiateJoin" \in registered[x]) =>
                LET d == Head(toGuest[x]).data IN
                /\ st'[x].host = d.host
                /\ st'[x].editor = d.editor
                /\ st'[x].users = d.users
                /\ st'[x].inSession]_vars

\* After the token went to bob, carol has joined: she holds the host's
\* editor and roster and has nothing more to receive.
C19_Witness ==
    /\ InSession(HostPeer) /\ st[HostPeer].editor = "bob"
    /\ \E x \in Guests :
          /\ InSession(x) /\ st[x].myUsername = "carol"
          /\ st[x].editor = "bob"
          /\ st[x].users = <<"alice", "bob", "carol">>
          /\ st[x].users = st[HostPeer].users
          /\ st[x].host = st[HostPeer].host
          /\ toGuest[x] = <<>>

\* The host has accepted the join of guest g under username n: an initiateJoin
\* whose roster lists n is on its way to g, which still goes by n.
JoinAccepted(g, n) ==
    /\ st[g].myUsername = n
    /\ ~InSession(g)
    /\ \E i \in 1..Len(toGuest[g]) :
          /\ toGuest[g][i].topic = "initiateJoin"
          /\ Includes(toGuest[g][i].data.users, n)

(* C20: under fair delivery, a guest whose join under username n the host has
   accepted is eventually in the session, unless it gives that username up
   (leaves, is ended, rejoins under another name or drops out). *)
C20_JoinLiveness ==
    \A g \in Guests : \A n \in Usernames :
        JoinAccepted(g, n) ~> (InSession(g) \/ st[g].myUsername # n)

----------------------------------------------------------------------------
(* The commands that end in sendMassNotif and the topic each one sends *)

SendOps == {"endSession", "leaveSession", "giveAccess", "forceAccess", "requestAccess", "accept"}

TopicOf(op) ==
    CASE op = "endSession" -> "endSession"
      [] op = "leaveSession" -> "leave"
      [] op = "requestAccess" -> "requestAccess"
      [] OTHER -> "transferAccess"

(* C21: the relay is a symmetric broadcast: a send by the host, in its session,
   goes to every guest in the session and to the host's own handler; a send by
   a guest in the session goes to the host as a relay request, which the host,
   in its session, re-publishes on the same topic with the same payload to
   every guest in the session, the sender included, and to its own handler;
   every peer in the session that takes the event runs the topic's handler on
   it once. *)
C21_SymmetricBroadcast ==
    [][/\ \A p \in Peers :
            (/\ last'.op \in SendOps /\ last'.out = "sent" /\ last'.peer = p
             /\ InSession(p))
            => IF p = HostPeer
               THEN /\ BroadcastBy(p, Msg(TopicOf(last'.op),
                                          pending'[p][Len(pending'[p])].data))
               ELSE /\ Len(toHost'[p]) = Len(toHost[p]) + 1
                    /\ toHost'[p][Len(toHost'[p])].topic = SEND_ALL_PREF \o TopicOf(last'.op)
       /\ \A topic \in MassTopics : RelayFansOut(topic)
       /\ \A g \in Guests : \A topic \in MassTopics :
            (GuestTakes(g, topic) /\ InSession(g)) =>
                st'[g] = ApplyEvent(st[g], topic, Head(toGuest[g]).data)
       /\ \A topic \in MassTopics :
            (/\ SelfApplies(HostPeer, topic) /\ InSession(HostPeer)
             /\ st[HostPeer].myNotifier
             /\ Head(pending[HostPeer]).then = "none")
            => st'[HostPeer] = ApplyEvent(st[HostPeer], topic, Head(pending[HostPeer]).data)]_vars

\* Peer p shows the Accept modal for the request `data`.
OpensAccept(p, data) == prompts'[p] = prompts[p] \cup {Prompt("accept", <<>>, data)}

(* C22: when a peer r that is in a session and is not the editor invokes
   Request Access, the request {from: editor, to: r} goes to every peer; of the
   peers that take it, exactly those that are in the session and are the editor
   in their own view show the Accept prompt; when such an editor accepts, the
   Transfer to r goes to every peer, and every peer in the session that takes
   it ends with editor = r. *)
C22_RequestAccepted ==
    [][/\ \A r \in Peers :
            (/\ ncmd' = ncmd + 1
             /\ last'.op = "requestAccess" /\ last'.peer = r
             /\ InSession(r) /\ ~IsEditor(r))
            => SentToAll(r, "requestAccess",
                         [from |-> st[r].editor, to |-> st[r].myUsername])
       /\ RelayFansOut("requestAccess")
       /\ \A g \in Guests :
            GuestTakes(g, "requestAccess") =>
                IF InSession(g) /\ IsEditor(g)
                THEN OpensAccept(g, Head(toGuest[g]).data)
                ELSE prompts'[g] = prompts[g]
       /\ \A p \in Peers :
            SelfApplies(p, "requestAccess") =>
                IF InSession(p) /\ IsEditor(p)
                THEN OpensAccept(p, Head(pending[p]).data)
                ELSE prompts'[p] = prompts[p]
       /\ \A p \in Peers : \A pr \in prompts[p] :
            (/\ pr.kind = "accept" /\ pr \notin prompts'[p]
             /\ last'.op = "accept" /\ last'.peer = p
             /\ InSession(p) /\ IsEditor(p))
            => SentToAll(p, "transferAccess", [from |-> pr.data.from, to |-> pr.data.to])
       /\ RelayFansOut("transferAccess")
       /\ \A g \in Guests :
            (GuestTakes(g, "transferAccess") /\ InSession(g)) =>
                st'[g].editor = Head(toGuest[g]).data.to
       /\ \A p \in Peers :
            (SelfApplies(p, "transferAccess") /\ InSession(p)) =>
                st'[p].editor = Head(pending[p]).data.to]_vars

\* The session variables of every peer are as they were.
SessionUnchanged ==
    \A q \in Peers :
        /\ st'[q].host = st[q].host
        /\ st'[q].editor = st[q].editor
        /\ st'[q].users = st[q].users
        /\ st'[q].inSession = st[q].inSession

(* C23: when the username prompt of Host Session or Join Session, the target
   pick of Give Access or the Accept prompt of a Request Access is dismissed
   or declined, nothing is sent and host, editor, users and inSession are
   unchanged at every peer; and a peer that takes a Request Access event keeps
   its editor, as does every other peer. *)
C23_AbandonedPrompt ==
    [][/\ \A p \in Peers : \A pr \in prompts[p] :
            (/\ last'.out = "cancelled" /\ last'.peer = p /\ last'.op = pr.kind
             /\ pr \notin prompts'[p])
            => /\ UNCHANGED <<toHost, toGuest, pending>>
               /\ SessionUnchanged
       /\ \A g \in Guests :
            GuestTakes(g, "requestAccess") =>
                \A q \in Peers : st'[q].editor = st[q].editor
       /\ \A p \in Peers :
            (SelfApplies(p, "requestAccess") /\ Head(pending[p]).then = "none") =>
                \A q \in Peers : st'[q].editor = st[q].editor]_vars

\* The editor has declined a request: the requester is in the session without
\* the token and nothing is in flight.
C23_Witness ==
    /\ last.op = "accept" /\ last.out = "cancelled"
    /\ InSession(last.peer) /\ IsEditor(last.peer)
    /\ \E g \in Peers : InSession(g) /\ ~IsEditor(g) /\ st[g].myUsername # Null
    /\ Quiescent

----------------------------------------------------------------------------
\* Peer p takes a detectChange event with payload `data`: a guest from its
\* channel, the host behind its own awaited notify.
TakesBlame(p, data) ==
    \/ /\ p \in Guests
       /\ GuestTakes(p, "detectChange")
       /\ data = Head(toGuest[p]).data
    \/ /\ SelfApplies(p, "detectChange")
       /\ data = Head(pending[p]).data

\* The detectChange payloads peer p sends in this step.
BlameSent(p) ==
    IF p \in Guests /\ Len(toHost'[p]) = Len(toHost[p]) + 1
    THEN {toHost'[p][Len(toHost'[p])].data}
    ELSE IF Len(pending'[p]) = Len(pending[p]) + 1
    THEN {pending'[p][Len(pending'[p])].data}
    ELSE {}

(* C24: a peer schedules the violation warning only in a step in which it
   takes a detectChange event whose perpetrator is its own peer number while
   its username differs from its editor; a peer that is the editor in its own
   view is not warned; and the change listener sends a detectChange only at a
   peer that is in a session and only for a change attributed to another
   peer. *)
C24_WarningTargets ==
    [][/\ \A p \in Peers :
            warnings'[p] # warnings[p] =>
                /\ warnings'[p] = Append(warnings[p], clock)
                /\ ~IsEditor(p)
                /\ \E a \in Peers :
                      TakesBlame(p, [perpetratorID |-> a]) /\ a = p
       /\ \A p \in Peers :
            (/\ ncmd' = ncmd + 1
             /\ last'.op = "documentChange" /\ last'.peer = p)
            => \A d \in BlameSent(p) :
                  /\ InSession(p)
                  /\ d.perpetratorID \in Peers \ {p}]_vars

\* A guest without the token has been warned once; nobody else has.
C24_Witness ==
    \E g \in Guests :
        /\ Len(warnings[g]) = 1
        /\ InSession(g) /\ ~IsEditor(g)
        /\ \A q \in Peers \ {g} : warnings[q] = <<>>
        /\ Quiescent

\* The rate limit lets a warning through at peer p now: none was scheduled
\* yet, or the last one is more than the interval ago.
IntervalElapsed(p) ==
    \/ warnings[p] = <<>>
    \/ clock - warnings[p][Len(warnings[p])] > ERROR_INTERVAL_MS

(* C25: at every peer any two warnings are scheduled more than
   ERROR_INTERVAL_MS apart; a violation taken while the interval since the
   last warning has not elapsed schedules none; and a violation taken after it
   has elapsed schedules one, at the current time. *)
C25_WarningRateLimit ==
    [][\A p \in Peers :
          /\ \A i, j \in 1..Len(warnings'[p]) :
                i < j => warnings'[p][j] - warnings'[p][i] > ERROR_INTERVAL_MS
          /\ \A a \in Peers :
                (TakesBlame(p, [perpetratorID |-> a])
                   /\ IsViolation(st[p], [perpetratorID |-> a]))
                => IF IntervalElapsed(p)
                   THEN warnings'[p] = Append(warnings[p], clock)
                   ELSE warnings'[p] = warnings[p]]_vars

\* A guest without the token has been warned twice, the second time one
\* millisecond after the interval had elapsed.
C25_Witness ==
    \E g \in Guests :
        /\ warnings[g] = <<Epoch, Epoch + ERROR_INTERVAL_MS + 1>>
        /\ st[g].lastEditErrorTime = clock
        /\ \A p \in Peers : InSession(p) /\ st[p].editor = "alice"
        /\ toGuest[g] = <<>>

----------------------------------------------------------------------------
(* The file-lock variant *)

\* The step is the operation op of window p.
LockStep(op, p) == ncmd' = ncmd + 1 /\ last'.op = op /\ last'.peer = p

\* The lock record names p's username as its owner.
OwnerIs(p) == lockFile.kind = "lock" /\ lockFile.owner = st[p].userName

\* C26: in the file-lock variant, for a window with an active session, a save
\* is vetoed and a change to the active document is reverted exactly when the
\* lock record's owner is not the window's username (a missing or unparseable
\* file has no owner); the answer depends neither on the clock nor on the time
\* of the last warning, the owner's saves and edits go through, and neither
\* handler writes the file.
C26_LockEnforcement ==
    [][\A p \in Windows :
          /\ LockStep("save", p) =>
                /\ last'.out = (IF st[p].isSessionActive /\ ~OwnerIs(p)
                                THEN "vetoed" ELSE "saved")
                /\ UNCHANGED <<st, lockFile, warnings>>
          /\ LockStep("change", p) =>
                /\ last'.out = (IF st[p].isSessionActive /\ ~OwnerIs(p)
                                THEN "reverted" ELSE "kept")
                /\ UNCHANGED lockFile
                /\ warnings'[p] # warnings[p] => last'.out = "reverted"]_vars

\* A window that is not the owner was warned about an edit and, within the
\* interval of the warning, has its save vetoed; the other window owns the lock.
C26_Witness ==
    \E p, q \in Windows :
        /\ last = [op |-> "save", peer |-> p, out |-> "vetoed"]
        /\ st[p].isSessionActive
        /\ st[p].lastEditErrorTime = clock
        /\ warnings[p] = <<clock>>
        /\ st[q].isSessionActive /\ OwnerIs(q) /\ ~OwnerIs(p)

\* The step is a round of Join Session's input loop at window p.
JoinAnswer(p) ==
    /\ ncmd' = ncmd /\ clock' = clock
    /\ last'.op = "joinSession" /\ last'.peer = p

\* C27: in the file-lock variant, while the lock file is missing or its text
\* does not parse there is no lock: every window with an active session is
\* treated as a non-owner, Request Access ends with 'No session found' and
\* Join Session ends with 'No session found' (file missing) or, after its
\* input box, with 'Failed to join session' (file present but not a lock);
\* neither writes the file nor activates a session, and only Host Session and
\* Force Take put a lock record in place.
C27_MalformedLock ==
    [][lockFile.kind # "lock" =>
         /\ \A p \in Windows :
              /\ LockStep("save", p) /\ st[p].isSessionActive => last'.out = "vetoed"
              /\ LockStep("change", p) /\ st[p].isSessionActive => last'.out = "reverted"
              /\ LockStep("requestAccess", p) =>
                    /\ last'.out = "NoSessionFound"
                    /\ UNCHANGED <<lockFile, st>>
              /\ LockStep("joinSession", p) =>
                    /\ last'.out = (IF lockFile.kind = "missing"
                                    THEN "NoSessionFound" ELSE "prompt")
                    /\ UNCHANGED <<lockFile, st>>
              /\ JoinAnswer(p) =>
                    /\ last'.out = "FailedToJoin"
                    /\ \A pr \in prompts'[p] : pr.kind # "lockJoinName"
                    /\ UNCHANGED <<lockFile, st>>
         /\ lockFile'.kind = "lock" => last'.op \in {"hostSession", "forceAccess"}]_vars

\* A session was hosted, the file was then left with text that does not
\* parse, and a window that answered Join Session's input box was turned away.
C27_Witness ==
    \E p, q \in Windows :
        /\ lockFile = Unparseable
        /\ last = [op |-> "joinSession", peer |-> p, out |-> "FailedToJoin"]
        /\ ~st[p].isSessionActive /\ prompts[p] = {}
        /\ st[q].isSessionActive /\ st[q].userName = "alice"

----------------------------------------------------------------------------
(* The networked variant, continued *)

\* C28: on every peer the value of host is a username from the moment the peer
\* is in a session until it leaves it, and no step changes it in between.
C28_HostImmutable ==
    [][\A p \in Peers :
          /\ st'[p].inSession => st'[p].host # Null
          /\ st[p].inSession /\ st'[p].inSession => st'[p].host = st[p].host]_vars

\* Guest g takes the head of its channel from the host.
Delivered(g) == toGuest[g] # <<>> /\ toGuest'[g] = Tail(toGuest[g])

\* C29: a guest's editor and users change only when a notification of the
\* host reaches it, or when the guest resets its own state with leave(); no
\* command of the guest and no continuation of its own send applies an event
\* to its replica.  So with the host gone no command of a guest changes
\* editor or users anywhere.
C29_NoBypass ==
    [][\A g \in Guests :
          (st'[g].editor # st[g].editor \/ st'[g].users # st[g].users)
              => Delivered(g) \/ st'[g] = leave(st[g])]_vars

----------------------------------------------------------------------------
(* The earlier blame variant, src/unnamed/part_002: the same transport,
   sendMassNotif, change listener and Give Access as the networked variant,
   with a relay handler of its own (lines 78-81).  Its replica has `requests`
   where the networked variant has idToUsername; Give Access and the
   transferAccess handler use neither. *)

\* String.prototype.slice(start) for 0 <= start.
slice(s, start) == IF start >= Len(s) THEN "" ELSE SubSeq(s, start + 1, Len(s))

\* The topics initMassNotifs watches (lines 99, 105).
BlameTopics == {"transferAccess", "detectChange"}

\* What a guest receives when the data of a notification is a function: it is
\* not the event's payload.
HandlerPayload == [handler |-> TRUE]

\* The host's service receives the head of guest g's channel; the relay handler
\* of lines 78-81 notifies name.slice(SEND_ALL_PREF.length) with `handler` as
\* the data, then runs the handler on the data it received.
relayReceive(g) ==
    /\ toHost[g] # <<>>
    /\ LET m == Head(toHost[g]) IN
        /\ toHost' = [toHost EXCEPT ![g] = Tail(@)]
        /\ IF (\E name \in BlameTopics : m.topic = SEND_ALL_PREF \o name)
              /\ "relay" \in registered[HostPeer]
           THEN LET name == CHOOSE n \in BlameTopics : m.topic = SEND_ALL_PREF \o n IN
                /\ Room(HostPeer)
                /\ toGuest' = Broadcast(Msg(slice(name, Len(SEND_ALL_PREF)), HandlerPayload))
                /\ pending' = [pending EXCEPT ![HostPeer] =
                                 Append(@, Cont("relayed", name, m.data, "none"))]
           ELSE UNCHANGED <<toGuest, pending>>
        /\ Quiet
    /\ UNCHANGED <<st, registered, serviceShared, prompts, ncmd, refused, env, warnings>>

\* A session that is under way: the host and every guest have run
\* initMassNotifs, the token is with any of them.
RelayInit == BlameInit

RelayNext ==
    \/ \E p \in Peers : giveAccess(p)
    \/ \E p \in Peers : giveAccessPick(p)
    \/ \E p \in Peers : promptCancel(p)
    \/ \E p \in Peers : resume(p)
    \/ \E g \in Guests : relayReceive(g)
    \/ \E g \in Guests : guestReceive(g)

RelaySpec == RelayInit /\ [][RelayNext]_vars

\* C30: in the earlier blame variant, when the host handles a guest's relay
\* request for transferAccess it publishes to every guest a notification with
\* the topic 'transferAccess' and the {from, to} payload it received.
C30_RelayRepublishes ==
    [][\A g \in Guests :
          (/\ toHost[g] # <<>>
           /\ toHost'[g] = Tail(toHost[g])
           /\ Head(toHost[g]).topic = SEND_ALL_PREF \o "transferAccess")
          => \A x \in Guests :
                toGuest'[x] = Append(toGuest[x], Msg("transferAccess", Head(toHost[g]).data))]_vars

----------------------------------------------------------------------------
(* Violation detection, liveness *)

BlameOf(p) == [perpetratorID |-> p]

\* A detectChange that names p is on its way to p: as a relay request to the
\* host, in p's channel from the host, or behind the host's awaited notify.
BlameInFlight(p) ==
    \/ \E g \in Guests : \E i \in 1..Len(toHost[g]) :
          toHost[g][i] = Msg(SEND_ALL_PREF \o "detectChange", BlameOf(p))
    \/ /\ p \in Guests
       /\ \E i \in 1..Len(toGuest[p]) : toGuest[p][i] = Msg("detectChange", BlameOf(p))
    \/ /\ p = HostPeer
       /\ \E i \in 1..Len(pending[p]) :
             pending[p][i].topic = "detectChange" /\ pending[p][i].data = BlameOf(p)

\* C31: under fair delivery, when a detectChange naming the in-session
\* non-editor p has been sent at time t and p has shown no warning within the
\* interval before t, p eventually shows a warning at t or later, unless it has
\* become the editor or has left the session by the time the event arrives.
C31_DetectionLiveness ==
    \A p \in Peers : \A t \in Instants :
        (/\ InSession(p) /\ ~IsEditor(p)
         /\ BlameInFlight(p)
         /\ clock = t /\ RateLimitPassed(st[p], t))
        ~> (st[p].lastEditErrorTime >= t \/ IsEditor(p) \/ ~InSession(p))

----------------------------------------------------------------------------
(* The commands of the networked variant at their edges *)

\* Peer p answers its quick pick or its Accept modal and the Transfer is sent.
SendsTransferFromPrompt(p) ==
    /\ last'.peer = p
    /\ last'.op \in {"giveAccess", "accept"}
    /\ last'.out = "sent"
    /\ prompts'[p] # prompts[p]

\* C32: a Transfer that Give Access or an accepted Request Access sends is
\* sent by a peer that is in the session and is the editor in its own view at
\* the moment of sending.
C32_TransferBySender ==
    [][\A p \in Peers :
          SendsTransferFromPrompt(p) => InSession(p) /\ IsEditor(p)]_vars

\* The session fields of a replica have the values leave() gives them.
SessionReset(s) ==
    ~s.inSession /\ s.host = Null /\ s.editor = Null /\ s.users = <<>>

\* C33: a guest whose state is the one leave() left (no username, session
\* fields reset) keeps inSession, host, editor and users at their reset values
\* in every step, until that guest itself enters a username with Join
\* Session; notifications that arrive in between do not touch them.
C33_LeftStaysIdle ==
    [][\A p \in Guests :
          (/\ SessionReset(st[p]) /\ st[p].myUsername = Null
           /\ st'[p].myUsername = Null)
          => SessionReset(st'[p])]_vars

\* No peer is in a session and the host has applied End Session or has not
\* hosted: its replica is reset.
SessionEnded == SessionReset(st[HostPeer]) /\ st[HostPeer].myUsername = Null

\* C34: once the host's replica has been reset by End Session, a join request
\* that reaches the host adds nothing to its users, and no peer that is out of
\* a session gets into one, until Host Session is performed again.
C34_EndedStaysEnded ==
    [][(SessionEnded /\ st'[HostPeer].myUsername = Null)
          => /\ st'[HostPeer].users = <<>>
             /\ \A p \in Peers : ~st[p].inSession => ~st'[p].inSession]_vars

\* The step is the command op invoked at peer p.
CommandStep(op, p) == ncmd' = ncmd + 1 /\ last'.op = op /\ last'.peer = p

\* C35: Leave Session or End Session invoked by a peer in the pre-join state
\* raises no error, puts no notification in flight and changes no replica.
C35_IdleLeaveNoOp ==
    [][\A p \in Peers :
          ((CommandStep("leaveSession", p) \/ CommandStep("endSession", p))
           /\ IsIdle(st[p]))
          => /\ last'.out # "TypeError"
             /\ UNCHANGED <<st, toHost, toGuest>>]_vars

\* C36: Request Access and Force Take invoked by a peer that is not in a
\* session, or that is the editor in its own view, end with the matching
\* message, put no notification in flight, suspend nothing and change no
\* replica.
C36_RefusedAccessNoOp ==
    [][\A p \in Peers :
          ((CommandStep("forceAccess", p) \/ CommandStep("requestAccess", p))
           /\ (~InSession(p) \/ IsEditor(p)))
          => /\ last'.out = (IF ~InSession(p) THEN "NotInSession" ELSE "AlreadyEditor")
             /\ UNCHANGED <<st, toHost, toGuest, pending, prompts>>]_vars

\* The editor of a session with another member in it has invoked Force Take
\* and was told that it is the editor already.
C36_Witness ==
    \E p, q \in Peers :
        /\ p # q
        /\ last = [op |-> "forceAccess", peer |-> p, out |-> "AlreadyEditor"]
        /\ InSession(p) /\ IsEditor(p)
        /\ InSession(q) /\ st[q].editor = st[p].myUsername /\ ~IsEditor(q)

----------------------------------------------------------------------------
(* The file-lock variant: joining, the request queue and the roster *)

\* Window p dismisses the input box of Join Session.
JoinCancel(p) ==
    /\ last' = [op |-> "lockJoinName", peer |-> p, out |-> "cancelled"]
    /\ prompts'[p] # prompts[p]

\* C37: in the file-lock variant a round of Join Session that finds the name
\* taken writes nothing, activates nothing and leaves the input box open; a
\* round that joins had a name that was not in users, appends exactly that name
\* to users, keeps owner and requests as read and activates the session under
\* that name; a dismissed input box writes nothing.
C37_LockJoin ==
    [][\A p \in Windows :
          /\ (JoinAnswer(p) /\ last'.out = "NameTaken") =>
                /\ lockFile.kind = "lock" /\ lockFile.users # <<>>
                /\ UNCHANGED <<lockFile, st, prompts>>
          /\ (JoinAnswer(p) /\ last'.out = "joined") =>
                /\ lockFile.kind = "lock"
                /\ ~Includes(lockFile.users, st'[p].userName)
                /\ lockFile' = [lockFile EXCEPT !.users = Append(@, st'[p].userName)]
                /\ st'[p].isSessionActive
                /\ \A q \in Windows \ {p} : st'[q] = st[q]
          /\ JoinCancel(p) => UNCHANGED <<lockFile, st>>]_vars

\* bob has just joined the session alice hosts: the roster is alice, bob,
\* alice still owns the lock and bob's input box is closed.
C37_Witness ==
    \E p, q \in Windows :
        /\ last = [op |-> "joinSession", peer |-> p, out |-> "joined"]
        /\ lockFile = LockRecord("alice", <<"alice", "bob">>, <<>>)
        /\ st[p].isSessionActive /\ st[p].userName = "bob"
        /\ st[q].isSessionActive /\ st[q].userName = "alice"
        /\ prompts[p] = {}

\* Window p answers the modal of the watcher.
Answers(p, out) ==
    /\ last' = [op |-> "approve", peer |-> p, out |-> out]
    /\ \E pr \in prompts[p] : pr.kind = "approve" /\ pr \notin prompts'[p]

\* A change of the file reaches window p.
Reaches(p) == fileEvents[p] /\ ~fileEvents'[p]

\* C38: in the file-lock variant Request Access appends the caller to requests
\* unless it is queued already, and then leaves the file alone; a change of the
\* file that reaches the owner while somebody is queued makes it ask about the
\* head of requests; Approve removes the head and makes it the owner, Deny
\* removes the head and keeps the owner; only the owner approves.
C38_RequestQueue ==
    [][\A p \in Windows :
          /\ (LockStep("requestAccess", p) /\ lockFile.kind = "lock") =>
                IF Includes(lockFile.requests, st[p].userName)
                THEN lockFile' = lockFile
                ELSE lockFile'.requests = Append(lockFile.requests, st[p].userName)
          /\ (Reaches(p) /\ st[p].isSessionActive /\ OwnerIs(p)
                         /\ lockFile.requests # <<>>) =>
                \E pr \in prompts'[p] :
                    pr.kind = "approve" /\ Head(pr.data.requests) = Head(lockFile.requests)
          /\ Answers(p, "approved") =>
                /\ OwnerIs(p) /\ lockFile.requests # <<>>
                /\ lockFile'.owner = Head(lockFile.requests)
                /\ lockFile'.requests = Tail(lockFile.requests)
          /\ Answers(p, "denied") =>
                /\ lockFile.kind = "lock" /\ lockFile.requests # <<>>
                /\ lockFile'.owner = lockFile.owner
                /\ lockFile'.requests = Tail(lockFile.requests)]_vars

\* The names a window can take.
UserNames == {trim(input) : input \in LockInputs} \ {""}

\* Window p has just joined under the name n.
JustJoined(p, n) ==
    /\ last = [op |-> "joinSession", peer |-> p, out |-> "joined"]
    /\ st[p].userName = n

\* C39: in the file-lock variant a name that a join has added to users stays
\* in users whatever the windows do next; stated for the step that follows the
\* join, the first at which the name could be lost.
C39_NoLostJoin ==
    [][\A p \in Windows : \A n \in UserNames :
          (JustJoined(p, n) /\ lockFile.kind = "lock" /\ Includes(lockFile.users, n)) =>
              (lockFile'.kind = "lock" /\ Includes(lockFile'.users, n))]_vars
====
